---------------------------- MODULE Spec2Model ----------------------------
(***************************************************************************)
(* Model of the Semantic Scholar enrichment layer of zotero-roam:          *)
(*   - cleanSemantic / cleanSemanticItem / matchSemanticEntry              *)
(*     (src/src/components/GraphWatcher/Menus/helpers.ts)                  *)
(*   - semanticClient / fetchExternalIdsByPaperId / augmentDOIs /          *)
(*     fetchSemantic (src/unnamed/part_000)                                *)
(* Strings are sequences of one-character strings, so that the regular     *)
(* expressions and the normalisations of the code are computed character   *)
(* by character.                                                           *)
(***************************************************************************)
EXTENDS Integers, Sequences, FiniteSets, TLC

(***************************************************************************)
(* JavaScript values                                                       *)
(***************************************************************************)
\* null / undefined string-valued field
Null == <<"<null>">>

\* the boolean false returned in place of a string
False == <<"<false>">>

\* JavaScript truthiness of a string-or-null-or-false value
Truthy(s) == s # Null /\ s # False /\ s # <<>>

\* a || b on string-valued operands
Or(a, b) == IF Truthy(a) THEN a ELSE b

UpperChars == <<"A","B","C","D","E","F","G","H","I","J","K","L","M",
                "N","O","P","Q","R","S","T","U","V","W","X","Y","Z">>

LowerChars == <<"a","b","c","d","e","f","g","h","i","j","k","l","m",
                "n","o","p","q","r","s","t","u","v","w","x","y","z">>

DigitChars == {"0","1","2","3","4","5","6","7","8","9"}

Range(f) == {f[i] : i \in DOMAIN f}

\* the class \w of JavaScript regular expressions
WordChars == Range(UpperChars) \cup Range(LowerChars) \cup DigitChars \cup {"_"}

\* the class \s, restricted to the characters the model uses
SpaceChars == {" "}

LowerChar(c) ==
    IF c \in Range(UpperChars)
    THEN LowerChars[CHOOSE i \in DOMAIN UpperChars : UpperChars[i] = c]
    ELSE c

\* String.prototype.toLowerCase
toLowerCase(s) == [i \in DOMAIN s |-> LowerChar(s[i])]

\* s.startsWith(p)
StartsWith(s, p) == Len(p) <= Len(s) /\ SubSeq(s, 1, Len(p)) = p

\* String.prototype.includes
includes(s, sub) ==
    \E i \in 1..(Len(s) + 1) :
        i + Len(sub) - 1 <= Len(s) /\ SubSeq(s, i, i + Len(sub) - 1) = sub

\* Array.prototype.find, given what the callback returns for each element: the index
\* of the first element it accepts (0 when none)
FindIndex(accepted) ==
    IF \E i \in DOMAIN accepted : accepted[i]
    THEN CHOOSE i \in DOMAIN accepted : accepted[i] /\ \A j \in 1..(i - 1) : ~accepted[j]
    ELSE 0

(***************************************************************************)
(* ../../utils: parseDOI                                                   *)
(***************************************************************************)
\* a match of /10\.([0-9]+?)\/(.+)/ starts at index i of s
DOIMatchAt(s, i) ==
    /\ i + 5 <= Len(s)
    /\ s[i] = "1" /\ s[i + 1] = "0" /\ s[i + 2] = "."
    /\ \E j \in (i + 4)..(Len(s) - 1) :
          /\ s[j] = "/"
          /\ \A k \in (i + 3)..(j - 1) : s[k] \in DigitChars

\* parseDOI: false for an empty value, else the first match of the DOI pattern
\* (prefix + suffix, to the end of the string), else false
parseDOI(doi) ==
    IF ~Truthy(doi) THEN False
    ELSE IF \E i \in DOMAIN doi : DOIMatchAt(doi, i)
         THEN LET i == CHOOSE k \in DOMAIN doi :
                          DOIMatchAt(doi, k) /\ \A m \in 1..(k - 1) : ~DOIMatchAt(doi, m)
              IN  SubSeq(doi, i, Len(doi))
         ELSE False

(***************************************************************************)
(* Strings of the model                                                    *)
(***************************************************************************)
\* "10.1/a"
DOI_a == <<"1","0",".","1","/","a">>

\* "10.1/A"
DOI_A == <<"1","0",".","1","/","A">>

\* "https://doi.org/10.1/a"
DOI_a_url == <<"h","t","t","p","s",":","/","/","d","o","i",".","o","r","g","/","1","0",".","1","/","a">>

\* "10.22/b"
DOI_b == <<"1","0",".","2","2","/","b">>

\* "10.3/c"
DOI_c == <<"1","0",".","3","/","c">>

\* "n/a"
DOI_bad == <<"n","/","a">>

\* "Graph Neural Networks: A Review" (30 characters once normalized)
T_review == <<"G","r","a","p","h"," ","N","e","u","r","a","l"," ","N","e","t","w","o","r","k","s",":"," ","A"," ","R","e","v","i","e","w">>

\* "A Survey - graph neural networks, a review of methods"
T_survey == <<"A"," ","S","u","r","v","e","y"," ","-"," ","g","r","a","p","h"," ","n","e","u","r","a","l"," ","n","e","t","w","o","r","k","s",","," ","a"," ","r","e","v","i","e","w"," ","o","f"," ","m","e","t","h","o","d","s">>

\* "Neural Networks"
T_nets == <<"N","e","u","r","a","l"," ","N","e","t","w","o","r","k","s">>

\* "Neural networks rock" (exactly 20 characters once normalized)
T_rock == <<"N","e","u","r","a","l"," ","n","e","t","w","o","r","k","s"," ","r","o","c","k">>

\* "Attention"
T_attn == <<"A","t","t","e","n","t","i","o","n">>

\* "attention!"
T_attn2 == <<"a","t","t","e","n","t","i","o","n","!">>

\* "K1", "K2", ... : Zotero item keys
Key(n) == <<"K", n>>

\* "doi.org/"
DoiOrg == <<"d","o","i",".","o","r","g","/">>

(***************************************************************************)
(* Optional list-valued fields (destructuring defaults `= []`)             *)
(***************************************************************************)
Some(list) == [defined |-> TRUE, value |-> list]

Undefined == [defined |-> FALSE, value |-> <<>>]

\* const { x = [] } = obj
Default(opt) == IF opt.defined THEN opt.value ELSE <<>>

(***************************************************************************)
(* externalIds objects: functions from id names to strings                 *)
(***************************************************************************)
\* an entry without externalIds
NoExternalIds == [k \in {"<undefined>"} |-> Null]

\* obj?.[k]
Get(obj, k) == IF k \in DOMAIN obj THEN obj[k] ELSE Null

\* { ...obj } : the own properties of obj, none for undefined
Spread(obj) == IF obj = NoExternalIds THEN [k \in {} |-> Null] ELSE obj

\* { ...a, ...b }
Merge(a, b) ==
    LET sa == Spread(a)
        sb == Spread(b)
    IN  [k \in DOMAIN sa \cup DOMAIN sb |-> IF k \in DOMAIN sb THEN sb[k] ELSE sa[k]]

(***************************************************************************)
(* helpers.ts                                                              *)
(***************************************************************************)
\* cleanSemanticItem: the DOI and the title of the formatted entry
cleanSemanticItem(item) ==
    LET extractedDOI == Or(Or(Get(item.externalIds, "DOI"), item.doi), Null)
    IN  [doi |-> parseDOI(extractedDOI), title |-> item.title]

\* .replace(/[^\w\s]/g, ' ')
ReplacePunct(t) ==
    [i \in DOMAIN t |-> IF t[i] \in WordChars \cup SpaceChars THEN t[i] ELSE " "]

\* .replace(/\s+/g, ' ')
RECURSIVE CollapseSpaces(_)
CollapseSpaces(t) ==
    IF t = <<>> THEN <<>>
    ELSE IF Head(t) \in SpaceChars
         THEN IF Len(t) > 1 /\ t[2] \in SpaceChars
              THEN CollapseSpaces(Tail(t))
              ELSE <<" ">> \o CollapseSpaces(Tail(t))
         ELSE <<Head(t)>> \o CollapseSpaces(Tail(t))

\* .trim()
RECURSIVE Trim(_)
Trim(t) ==
    IF t = <<>> THEN <<>>
    ELSE IF Head(t) \in SpaceChars THEN Trim(Tail(t))
    ELSE IF t[Len(t)] \in SpaceChars THEN Trim(SubSeq(t, 1, Len(t) - 1))
    ELSE t

\* normalizeTitle: lowercase, punctuation to spaces, whitespace collapsed, trimmed
normalizeTitle(title) == Trim(CollapseSpaces(ReplacePunct(toLowerCase(title))))

\* .replace(/^(https?:\/\/)?(dx\.)?doi\.org\//, '')
StripDoiOrg(d) ==
    LET schemes == {<<>>, <<"h","t","t","p",":","/","/">>, <<"h","t","t","p","s",":","/","/">>}
        hosts   == {<<>>, <<"d","x",".">>}
        pre     == {sc \o h \o DoiOrg : sc \in schemes, h \in hosts}
    IN  IF \E q \in pre : StartsWith(d, q)
        THEN LET q == CHOOSE r \in pre : StartsWith(d, r)
             IN  SubSeq(d, Len(q) + 1, Len(d))
        ELSE d

\* first pass of the DOI match: the library DOI equals the entry's DOI
ExactDOIMatch(it, cleanItem) == parseDOI(it.data.DOI) = cleanItem.doi

\* second pass of the DOI match: case-insensitive, or equal once a doi.org prefix is removed
FlexibleDOIMatch(it, cleanItem) ==
    LET libDOI == parseDOI(it.data.DOI)
    IN  /\ Truthy(libDOI)
        /\ Truthy(cleanItem.doi)
        /\ \/ toLowerCase(libDOI) = toLowerCase(cleanItem.doi)
           \/ toLowerCase(StripDoiOrg(cleanItem.doi)) = toLowerCase(StripDoiOrg(libDOI))

\* the length above which titles are also compared by inclusion
SubstringMinLength == 20

\* title match: equal once normalized, or one including the other for longer titles
TitleMatch(it, cleanItem) ==
    LET semanticTitleNorm == normalizeTitle(cleanItem.title)
        libTitleNorm      == normalizeTitle(it.data.title)
    IN  /\ Truthy(it.data.title)
        /\ \/ libTitleNorm = semanticTitleNorm
           \/ /\ Len(semanticTitleNorm) > SubstringMinLength
              /\ \/ includes(libTitleNorm, semanticTitleNorm)
                 \/ includes(semanticTitleNorm, libTitleNorm)

\* findLibItem with the two DOI passes in the other order
findLibItem_FlexibleFirst(cleanItem, items) ==
    LET exact    == FindIndex([i \in DOMAIN items |-> ExactDOIMatch(items[i], cleanItem)])
        flexible == FindIndex([i \in DOMAIN items |-> FlexibleDOIMatch(items[i], cleanItem)])
        byTitle  == FindIndex([i \in DOMAIN items |-> TitleMatch(items[i], cleanItem)])
        byDOI    == IF Truthy(cleanItem.doi)
                    THEN (IF flexible # 0 THEN flexible ELSE exact)
                    ELSE 0
    IN  IF byDOI = 0 /\ Truthy(cleanItem.title) THEN byTitle ELSE byDOI

\* the three attempts of matchSemanticEntry at finding libItem, as an index in items
\* (0 for undefined)
findLibItem(cleanItem, items) ==
    LET exact    == FindIndex([i \in DOMAIN items |-> ExactDOIMatch(items[i], cleanItem)])
        flexible == FindIndex([i \in DOMAIN items |-> FlexibleDOIMatch(items[i], cleanItem)])
        byTitle  == FindIndex([i \in DOMAIN items |-> TitleMatch(items[i], cleanItem)])
        byDOI    == IF Truthy(cleanItem.doi)
                    THEN (IF exact # 0 THEN exact ELSE flexible)
                    ELSE 0
    IN  IF byDOI = 0 /\ Truthy(cleanItem.title) THEN byTitle ELSE byDOI

\* inLibrary: false
NotInLibrary == [false |-> TRUE]

\* roamCitekeys.get(k) || false
RoamGet(roamCitekeys, k) ==
    IF k \in DOMAIN roamCitekeys THEN Or(roamCitekeys[k], False) ELSE False

\* identifyChildren, for a datastore without PDFs and notes
identifyChildren(itemKey, pdfs, notes) == [pdfs |-> <<>>, notes |-> <<>>]

\* matchSemanticEntry looking the item's key up without its "@"
matchSemanticEntry_NoAt(semanticItem, datastore, roamCitekeys) ==
    LET items     == Default(datastore.items)
        cleanItem == cleanSemanticItem(semanticItem)
        idx       == findLibItem(cleanItem, items)
    IN  IF idx = 0
        THEN [doi |-> cleanItem.doi, title |-> cleanItem.title,
              inGraph |-> False, inLibrary |-> NotInLibrary]
        ELSE LET libItem == items[idx]
             IN  [doi |-> cleanItem.doi, title |-> cleanItem.title,
                  inGraph |-> RoamGet(roamCitekeys, libItem.key),
                  inLibrary |-> [children |-> identifyChildren(libItem.data.key,
                                                               Default(datastore.pdfs),
                                                               Default(datastore.notes)),
                                 raw |-> libItem]]

\* matchSemanticEntry: the formatted entry with its provenance
matchSemanticEntry(semanticItem, datastore, roamCitekeys) ==
    LET items     == Default(datastore.items)
        cleanItem == cleanSemanticItem(semanticItem)
        idx       == findLibItem(cleanItem, items)
    IN  IF idx = 0
        THEN [doi |-> cleanItem.doi, title |-> cleanItem.title,
              inGraph |-> False, inLibrary |-> NotInLibrary]
        ELSE LET libItem == items[idx]
             IN  [doi |-> cleanItem.doi, title |-> cleanItem.title,
                  inGraph |-> RoamGet(roamCitekeys, <<"@">> \o libItem.key),
                  inLibrary |-> [children |-> identifyChildren(libItem.data.key,
                                                               Default(datastore.pdfs),
                                                               Default(datastore.notes)),
                                 raw |-> libItem]]

\* isSBacklink
isSBacklink(item) == item.inLibrary # NotInLibrary

\* entry tagged with its _type
Tagged(entry, type) ==
    [doi |-> entry.doi, title |-> entry.title, inGraph |-> entry.inGraph,
     inLibrary |-> entry.inLibrary, _type |-> type]

\* items.filter(it => parseDOI(it.data.DOI))
itemsWithDOIs(items) == LET P(it) == Truthy(parseDOI(it.data.DOI)) IN SelectSeq(items, P)

\* cleanSemantic with the backlinks of the citations ahead of those of the references
cleanSemantic_CitationsFirst(datastore, semantic, roamCitekeys) ==
    LET store == [items |-> Some(itemsWithDOIs(Default(datastore.items))),
                  pdfs |-> Some(Default(datastore.pdfs)),
                  notes |-> Some(Default(datastore.notes))]
        clean_citations ==
            [i \in DOMAIN Default(semantic.citations) |->
                Tagged(matchSemanticEntry(Default(semantic.citations)[i], store, roamCitekeys), "CITING")]
        clean_references ==
            [i \in DOMAIN Default(semantic.references) |->
                Tagged(matchSemanticEntry(Default(semantic.references)[i], store, roamCitekeys), "CITED")]
    IN  [citations  |-> clean_citations,
         references |-> clean_references,
         backlinks  |-> SelectSeq(clean_citations \o clean_references, isSBacklink)]

\* cleanSemantic
cleanSemantic(datastore, semantic, roamCitekeys) ==
    LET items      == Default(datastore.items)
        citations  == Default(semantic.citations)
        references == Default(semantic.references)
        store      == [items |-> Some(itemsWithDOIs(items)),
                       pdfs |-> Some(Default(datastore.pdfs)),
                       notes |-> Some(Default(datastore.notes))]
        clean_citations ==
            [i \in DOMAIN citations |->
                Tagged(matchSemanticEntry(citations[i], store, roamCitekeys), "CITING")]
        clean_references ==
            [i \in DOMAIN references |->
                Tagged(matchSemanticEntry(references[i], store, roamCitekeys), "CITED")]
    IN  [citations  |-> clean_citations,
         references |-> clean_references,
         backlinks  |-> SelectSeq(clean_references \o clean_citations, isSBacklink)]

(***************************************************************************)
(* Inputs of the model                                                     *)
(***************************************************************************)
\* the longest library of the model
MaxItems == 2

\* the largest number of citations plus references in a payload
MaxEntries == 2

\* a Zotero item: its key, and the DOI and title of its data
ZItem(n, doi, title) == [key |-> Key(n), data |-> [key |-> Key(n), DOI |-> doi, title |-> title]]

ItemPool ==
    { ZItem("1", DOI_A, T_attn),
      ZItem("2", DOI_a_url, T_survey),
      ZItem("3", DOI_b, T_nets),
      ZItem("4", DOI_bad, T_review) }

\* a related paper of the Semantic Scholar payload
Paper(paperId, externalIds, doi, title) ==
    [paperId |-> paperId, externalIds |-> externalIds, doi |-> doi, title |-> title]

EntryPool ==
    { Paper(<<"p","1">>, [DOI |-> DOI_a], Null, T_attn2),
      Paper(<<"p","2">>, NoExternalIds, DOI_A, T_review),
      Paper(<<"p","3">>, [ArXiv |-> <<"7">>], Null, T_rock),
      Paper(Null, [DOI |-> <<>>], Null, T_review),
      Paper(<<"p","5">>, [DOI |-> DOI_c], DOI_c, T_attn) }

\* no element occurs twice in seq
NoRepeat(seq) == \A i, j \in DOMAIN seq : i # j => seq[i] # seq[j]

\* sequences of at most n elements of S
RECURSIVE SeqsUpTo(_, _)
SeqsUpTo(S, n) ==
    IF n = 0 THEN {<<>>}
    ELSE {<<>>} \cup {<<x>> \o t : x \in S, t \in SeqsUpTo(S, n - 1)}

\* the libraries of the model: item keys are unique in a library
Datastores ==
    { [items |-> Some(l), pdfs |-> Undefined, notes |-> Undefined] :
          l \in {u \in SeqsUpTo(ItemPool, MaxItems) : NoRepeat(u)} }
    \cup { [items |-> Undefined, pdfs |-> Some(<<>>), notes |-> Some(<<>>)] }

\* an optional list: an empty one may also be missing
Optional(list) == IF list = <<>> THEN {Some(list), Undefined} ELSE {Some(list)}

\* the payloads of the model: a paper occurs once in a list
Payloads ==
    LET lists == {u \in SeqsUpTo(EntryPool, MaxEntries) : NoRepeat(u)}
        pairs == {p \in lists \X lists : Len(p[1]) + Len(p[2]) <= MaxEntries}
    IN  UNION { { [citations |-> c, references |-> r] :
                    c \in Optional(p[1]), r \in Optional(p[2]) } : p \in pairs }

\* the citekey pages of the Roam graph
RoamCitekeyMaps ==
    { [k \in {} |-> Null],
      [k \in {<<"@">> \o Key("1"), Key("2"), <<"@">> \o Key("3")} |-> <<"u">> \o k] }

\* the largest number of citations plus references in the answer to the main request
MaxPapers == 2

\* the related papers of the answers to the main request
AnswerPool ==
    { Paper(<<"p","1">>, [DOI |-> DOI_a], Null, T_attn2),
      Paper(<<"p","3">>, [ArXiv |-> <<"7">>, MAG |-> <<"1">>], DOI_A, T_rock),
      Paper(Null, NoExternalIds, Null, T_review) }

\* the answers to the main request
Answers ==
    LET lists == SeqsUpTo(AnswerPool, MaxPapers)
        pairs == {p \in lists \X lists : Len(p[1]) + Len(p[2]) <= MaxPapers}
    IN  UNION { { [citations |-> c, references |-> r] :
                    c \in Optional(p[1]), r \in Optional(p[2]) } : p \in pairs }

\* the DOIs fetchSemantic is called with
RequestedDOIs == {DOI_a, DOI_b}

\* the externalIds a lookup by paperId answers with
FetchedExternalIds ==
    { [DOI |-> DOI_c, ArXiv |-> <<"9">>],
      NoExternalIds }

\* errors axios-retry retries (network errors, 5xx answers to a GET) and errors it does not
RetryableErrors == {"network", "503"}

FatalErrors == {"404", "429"}

(***************************************************************************)
(* State                                                                   *)
(***************************************************************************)
VARIABLES
    datastore,      \* cleanSemantic: the library contents
    semantic,       \* cleanSemantic: the citations and references of the payload
    roamCitekeys,   \* cleanSemantic: the citekey pages of the graph
    related,        \* cleanSemantic: the value returned
    cpc,            \* cleanSemantic: "ready" before the call, "done" after it
    fpc,            \* fetchSemantic: "idle", "main", "augment", "resolved", "rejected"
    doi,            \* fetchSemantic: its argument
    mainAttempts,   \* semanticClient: attempts of the main request so far
    data,           \* fetchSemantic: the data of the main response
    backfill,       \* augmentDOIs: per entry, the state of its lookup by paperId
    augmented,      \* augmentDOIs: per entry, the value its callback returned
    errors,         \* the errors reported through window.zoteroRoam.error
    outcome         \* fetchSemantic: the value or the error its promise settled with

cleanVars == <<datastore, semantic, roamCitekeys, related, cpc>>

fetchVars == <<fpc, doi, mainAttempts, data, backfill, augmented, errors, outcome>>

vars == <<datastore, semantic, roamCitekeys, related, cpc,
          fpc, doi, mainAttempts, data, backfill, augmented, errors, outcome>>

\* the value of `related` before cleanSemantic has returned
NoRelated == [citations |-> <<>>, references |-> <<>>, backlinks |-> <<>>]

\* the payload before the main request has answered
NoData == [citations |-> Undefined, references |-> Undefined]

\* fetchSemantic not called
FetchIdle ==
    /\ fpc = "idle"
    /\ doi = Null
    /\ mainAttempts = 0
    /\ data = NoData
    /\ backfill = [l \in {"citations", "references"} |-> <<>>]
    /\ augmented = [l \in {"citations", "references"} |-> <<>>]
    /\ errors = <<>>
    /\ outcome = [kind |-> "pending"]

\* cleanSemantic not called, on fixed inputs
CleanIdle ==
    /\ datastore = [items |-> Undefined, pdfs |-> Undefined, notes |-> Undefined]
    /\ semantic = NoData
    /\ roamCitekeys = [k \in {} |-> Null]
    /\ related = NoRelated
    /\ cpc = "ready"

(***************************************************************************)
(* cleanSemantic as a step                                                 *)
(***************************************************************************)
InitClean ==
    /\ datastore \in Datastores
    /\ semantic \in Payloads
    /\ roamCitekeys \in RoamCitekeyMaps
    /\ related = NoRelated
    /\ cpc = "ready"
    /\ FetchIdle

CallCleanSemantic ==
    /\ cpc = "ready"
    /\ related' = cleanSemantic(datastore, semantic, roamCitekeys)
    /\ cpc' = "done"
    /\ UNCHANGED <<datastore, semantic, roamCitekeys>>
    /\ UNCHANGED fetchVars

NextClean == CallCleanSemantic

SpecClean == InitClean /\ [][NextClean]_vars

(***************************************************************************)
(* part_000: semanticClient, fetchExternalIdsByPaperId, augmentDOIs,       *)
(* fetchSemantic                                                           *)
(***************************************************************************)
\* axiosRetry(semanticClient, { retries: 3 })
retries == 3

\* ShouldRetry allowing one retry more
ShouldRetry_OneMore(attempts, err) == err \in RetryableErrors /\ attempts - 1 <= retries

\* axios-retry re-issues a request whose error is retryable while fewer than
\* `retries` retries were made; attempts counts the attempts made so far
ShouldRetry(attempts, err) == err \in RetryableErrors /\ attempts - 1 < retries

\* the lists of a payload
Lists == {"citations", "references"}

\* the entries of a payload, by list
EntriesOf(payload) ==
    [l \in Lists |-> IF l = "citations" THEN Default(payload.citations)
                     ELSE Default(payload.references)]

\* fetchExternalIdsByPaperId returned null
NullResult == [null |-> TRUE]

\* NeedsBackfill without the test of paperId
NeedsBackfill_AnyPaper(p) == ~Truthy(Get(p.externalIds, "DOI"))

\* augmentDOIs: the callback goes on to fetchExternalIdsByPaperId
NeedsBackfill(p) == ~(Truthy(Get(p.externalIds, "DOI")) \/ ~Truthy(p.paperId))

\* augmentCallback with the ids of the entry spread over the fetched ones
augmentCallback_KeepOwn(p, fetched) ==
    IF fetched # NullResult /\ Truthy(Get(fetched.externalIds, "DOI"))
    THEN [p EXCEPT !.externalIds = Merge(fetched.externalIds, p.externalIds)]
    ELSE p

\* augmentDOIs: what the callback returns once fetchExternalIdsByPaperId has returned
augmentCallback(p, fetched) ==
    IF fetched # NullResult /\ Truthy(Get(fetched.externalIds, "DOI"))
    THEN [p EXCEPT !.externalIds = Merge(p.externalIds, fetched.externalIds)]
    ELSE p

\* the value of an entry of `augmented` whose callback has not returned
Pending == Paper(<<"<pending>">>, NoExternalIds, Null, Null)

\* fetchExternalIdsByPaperId has not returned, or was not called
NotFetched == [pending |-> TRUE]

\* a lookup by paperId: the calls of fetchExternalIdsByPaperId for the entry, the
\* attempts of its request so far, what it returned, and whether the callback of
\* augmentDOIs has returned
Lookup(calls, attempts, fetched, settled) ==
    [calls |-> calls, attempts |-> attempts, fetched |-> fetched, settled |-> settled]

\* fetchExternalIdsByPaperId: what it returns for an answer, and for a failure
fetchExternalIdsByPaperId(paperId, answered, ids) ==
    IF answered THEN [externalIds |-> ids, paperId |-> paperId] ELSE NullResult

\* transformDOIs: every entry's doi parsed
transformDOIs(arr) == [i \in DOMAIN arr |-> [arr[i] EXCEPT !.doi = parseDOI(arr[i].doi)]]

InitFetch ==
    /\ CleanIdle
    /\ FetchIdle

\* fetchSemantic(d) is called: the main request is sent
Call(d) ==
    /\ fpc = "idle"
    /\ fpc' = "main"
    /\ doi' = d
    /\ mainAttempts' = 1
    /\ UNCHANGED <<data, backfill, augmented, errors, outcome>>
    /\ UNCHANGED cleanVars

\* an attempt of the main request fails and axios-retry sends it again
MainRetry(err) ==
    /\ fpc = "main"
    /\ ShouldRetry(mainAttempts, err)
    /\ mainAttempts' = mainAttempts + 1
    /\ UNCHANGED <<fpc, doi, data, backfill, augmented, errors, outcome>>
    /\ UNCHANGED cleanVars

\* the main request fails for good: the catch block reports and rejects
MainFails(err) ==
    /\ fpc = "main"
    /\ ~ShouldRetry(mainAttempts, err)
    /\ errors' = Append(errors, [origin |-> "API", error |-> err])
    /\ outcome' = [kind |-> "rejected", error |-> err]
    /\ fpc' = "rejected"
    /\ UNCHANGED <<doi, mainAttempts, data, backfill, augmented>>
    /\ UNCHANGED cleanVars

\* the main request is answered: both augmentDOIs run their callbacks up to the
\* first await, which sends the lookups
MainSucceeds(payload) ==
    /\ fpc = "main"
    /\ data' = payload
    /\ backfill' = [l \in Lists |->
                      [i \in DOMAIN EntriesOf(payload)[l] |->
                          IF NeedsBackfill(EntriesOf(payload)[l][i])
                          THEN Lookup(1, 1, NotFetched, FALSE)
                          ELSE Lookup(0, 0, NotFetched, TRUE)]]
    /\ augmented' = [l \in Lists |->
                       [i \in DOMAIN EntriesOf(payload)[l] |->
                           IF NeedsBackfill(EntriesOf(payload)[l][i])
                           THEN Pending
                           ELSE EntriesOf(payload)[l][i]]]
    /\ fpc' = "augment"
    /\ UNCHANGED <<doi, mainAttempts, errors, outcome>>
    /\ UNCHANGED cleanVars

\* the lookup of entry i of list l is in flight
InFlight(l, i) ==
    /\ fpc = "augment"
    /\ i \in DOMAIN backfill[l]
    /\ ~backfill[l][i].settled

\* an attempt of a lookup fails and axios-retry sends it again
BackfillRetry(l, i, err) ==
    /\ InFlight(l, i)
    /\ ShouldRetry(backfill[l][i].attempts, err)
    /\ backfill' = [backfill EXCEPT ![l][i].attempts = @ + 1]
    /\ UNCHANGED <<fpc, doi, mainAttempts, data, augmented, errors, outcome>>
    /\ UNCHANGED cleanVars

\* BackfillFails without the try/catch of fetchExternalIdsByPaperId: the failure of
\* the lookup reaches the catch block of fetchSemantic
BackfillFails_Uncaught(l, i, err) ==
    /\ InFlight(l, i)
    /\ ~ShouldRetry(backfill[l][i].attempts, err)
    /\ backfill' = [backfill EXCEPT ![l][i].settled = TRUE, ![l][i].fetched = NullResult]
    /\ errors' = Append(errors, [origin |-> "API", error |-> err])
    /\ outcome' = [kind |-> "rejected", error |-> err]
    /\ fpc' = "rejected"
    /\ UNCHANGED <<doi, mainAttempts, data, augmented>>
    /\ UNCHANGED cleanVars

\* a lookup fails for good: fetchExternalIdsByPaperId returns null
BackfillFails(l, i, err) ==
    /\ InFlight(l, i)
    /\ ~ShouldRetry(backfill[l][i].attempts, err)
    /\ LET p       == EntriesOf(data)[l][i]
           fetched == fetchExternalIdsByPaperId(p.paperId, FALSE, NoExternalIds)
       IN  /\ backfill' = [backfill EXCEPT ![l][i].settled = TRUE, ![l][i].fetched = fetched]
           /\ augmented' = [augmented EXCEPT ![l][i] = augmentCallback(p, fetched)]
    /\ UNCHANGED <<fpc, doi, mainAttempts, data, errors, outcome>>
    /\ UNCHANGED cleanVars

\* a lookup is answered with the externalIds ids
BackfillSucceeds(l, i, ids) ==
    /\ InFlight(l, i)
    /\ LET p       == EntriesOf(data)[l][i]
           fetched == fetchExternalIdsByPaperId(p.paperId, TRUE, ids)
       IN  /\ backfill' = [backfill EXCEPT ![l][i].settled = TRUE, ![l][i].fetched = fetched]
           /\ augmented' = [augmented EXCEPT ![l][i] = augmentCallback(p, fetched)]
    /\ UNCHANGED <<fpc, doi, mainAttempts, data, errors, outcome>>
    /\ UNCHANGED cleanVars

\* every callback of both augmentDOIs has returned
AllSettled == \A l \in Lists : \A i \in DOMAIN backfill[l] : backfill[l][i].settled

\* both Promise.all are fulfilled: fetchSemantic returns
Resolve ==
    /\ fpc = "augment"
    /\ AllSettled
    /\ outcome' = [kind |-> "resolved",
                   value |-> [doi |-> doi,
                              citations |-> transformDOIs(augmented["citations"]),
                              references |-> transformDOIs(augmented["references"])]]
    /\ fpc' = "resolved"
    /\ UNCHANGED <<doi, mainAttempts, data, backfill, augmented, errors>>
    /\ UNCHANGED cleanVars

NextFetch ==
    \/ \E d \in RequestedDOIs : Call(d)
    \/ \E err \in RetryableErrors \cup FatalErrors : MainRetry(err)
    \/ \E err \in RetryableErrors \cup FatalErrors : MainFails(err)
    \/ \E payload \in Answers : MainSucceeds(payload)
    \/ \E l \in Lists, i \in 1..MaxPapers, err \in RetryableErrors \cup FatalErrors :
          BackfillRetry(l, i, err)
    \/ \E l \in Lists, i \in 1..MaxPapers, err \in RetryableErrors \cup FatalErrors :
          BackfillFails(l, i, err)
    \/ \E l \in Lists, i \in 1..MaxPapers, ids \in FetchedExternalIds :
          BackfillSucceeds(l, i, ids)
    \/ Resolve

SpecFetch == InitFetch /\ [][NextFetch]_vars

\* the event loop runs the continuation of fetchSemantic once its promises are fulfilled
FairSpecFetch == SpecFetch /\ WF_vars(Resolve)

(***************************************************************************)
(* Properties of cleanSemantic (SpecClean)                                 *)
(***************************************************************************)
\* the input lists of the call, and the library items the matching runs over
InCitations == Default(semantic.citations)

InReferences == Default(semantic.references)

LibItems == itemsWithDOIs(Default(datastore.items))

\* the pairs <<returned entry, input entry>> of the call, position by position
Returned ==
    { <<related.citations[i], InCitations[i]>> :
        i \in DOMAIN related.citations \cap DOMAIN InCitations }
    \cup { <<related.references[i], InReferences[i]>> :
             i \in DOMAIN related.references \cap DOMAIN InReferences }

OutLists == <<related.citations, related.references, related.backlinks>>

\* the page roamCitekeys holds for the citekey of a library item, false when none
PageOf(item) ==
    IF (<<"@">> \o item.key) \in DOMAIN roamCitekeys
    THEN roamCitekeys[<<"@">> \o item.key]
    ELSE False

\* C1: every returned entry has inLibrary non-false exactly when the matching found a
\* library item for it, inGraph is then the page roamCitekeys holds for "@" + the key
\* of that item (false when there is none), and inGraph is false whenever inLibrary is
C1_Provenance ==
    cpc = "done" =>
        /\ \A pr \in Returned :
              LET idx == findLibItem(cleanSemanticItem(pr[2]), LibItems)
              IN  /\ (pr[1].inLibrary # NotInLibrary) <=> (idx # 0)
                  /\ idx # 0 => /\ pr[1].inLibrary.raw = LibItems[idx]
                                /\ pr[1].inGraph = PageOf(LibItems[idx])
        /\ \A k \in DOMAIN OutLists : \A i \in DOMAIN OutLists[k] :
              LET e == OutLists[k][i]
              IN  /\ e.inLibrary = NotInLibrary => e.inGraph = False
                  /\ e.inLibrary # NotInLibrary => e.inGraph = PageOf(e.inLibrary.raw)

\* a call returned one entry in the library and in the graph, and one in neither
C1_Witness ==
    /\ cpc = "done"
    /\ \E i \in DOMAIN related.citations :
          /\ related.citations[i].inLibrary # NotInLibrary
          /\ related.citations[i].inGraph # False
    /\ \E i \in DOMAIN related.references :
          /\ related.references[i].inLibrary = NotInLibrary
          /\ related.references[i].inGraph = False

\* C2: within each returned list no two entries are matched to the same library item
\* and no two entries carry the same non-empty parsed DOI
C2_Deduplicated ==
    cpc = "done" =>
        \A k \in DOMAIN OutLists : \A i, j \in DOMAIN OutLists[k] :
            i # j =>
                LET a == OutLists[k][i]
                    b == OutLists[k][j]
                IN  /\ ~(a.inLibrary # NotInLibrary /\ b.inLibrary # NotInLibrary
                         /\ a.inLibrary.raw = b.inLibrary.raw)
                    /\ ~(Truthy(a.doi) /\ a.doi = b.doi)

\* the three stages of the cascade, as the claim words them
C3_Exact(it, c) == Truthy(c.doi) /\ parseDOI(it.data.DOI) = c.doi

C3_Flexible(it, c) ==
    /\ Truthy(c.doi)
    /\ Truthy(parseDOI(it.data.DOI))
    /\ \/ toLowerCase(parseDOI(it.data.DOI)) = toLowerCase(c.doi)
       \/ toLowerCase(StripDoiOrg(parseDOI(it.data.DOI))) = toLowerCase(StripDoiOrg(c.doi))

C3_Title(it, c) ==
    /\ Truthy(c.title)
    /\ Truthy(it.data.title)
    /\ LET lt == normalizeTitle(it.data.title)
           st == normalizeTitle(c.title)
       IN  \/ lt = st
           \/ Len(st) > 20 /\ (includes(lt, st) \/ includes(st, lt))

\* the least element of a non-empty set of indices
Least(S) == CHOOSE i \in S : \A j \in S : i <= j

\* the library item the cascade designates (0 for none)
C3_Expected(c, items) ==
    LET exact    == {i \in DOMAIN items : C3_Exact(items[i], c)}
        flexible == {i \in DOMAIN items : C3_Flexible(items[i], c)}
        byTitle  == {i \in DOMAIN items : C3_Title(items[i], c)}
    IN  IF exact # {} THEN Least(exact)
        ELSE IF flexible # {} THEN Least(flexible)
        ELSE IF byTitle # {} THEN Least(byTitle)
        ELSE 0

\* C3: the item an entry is matched to is the first exact-DOI match if any, else the
\* first case-insensitive or prefix-stripped DOI match if any, else the first title
\* match if any, whatever the positions of the later-stage matches in the list
C3_PriorityCascade ==
    cpc = "done" =>
        \A pr \in Returned :
            LET want == C3_Expected(cleanSemanticItem(pr[2]), LibItems)
            IN  IF want = 0 THEN pr[1].inLibrary = NotInLibrary
                ELSE /\ pr[1].inLibrary # NotInLibrary
                     /\ pr[1].inLibrary.raw = LibItems[want]

\* one entry is matched to the second item by its exact DOI although the first item
\* matches it case-insensitively, and another entry is matched by title only
C3_Witness ==
    /\ cpc = "done"
    /\ Len(LibItems) >= 2
    /\ \E pr \in Returned :
          LET c == cleanSemanticItem(pr[2])
          IN  /\ C3_Flexible(LibItems[1], c) /\ ~C3_Exact(LibItems[1], c)
              /\ C3_Exact(LibItems[2], c)
              /\ pr[1].inLibrary # NotInLibrary
              /\ pr[1].inLibrary.raw = LibItems[2]
    /\ \E pr \in Returned :
          LET c == cleanSemanticItem(pr[2])
          IN  /\ \A i \in DOMAIN LibItems :
                    ~C3_Exact(LibItems[i], c) /\ ~C3_Flexible(LibItems[i], c)
              /\ pr[1].inLibrary # NotInLibrary

\* what identifies an input entry in the output: its parsed DOI and its title
SameEntry(out, in) ==
    /\ out.title = in.title
    /\ out.doi = parseDOI(Or(Or(Get(in.externalIds, "DOI"), in.doi), Null))

\* the entries of a list that are in the library, in the order of the list
RECURSIVE InLibraryOf(_)
InLibraryOf(list) ==
    IF list = <<>> THEN <<>>
    ELSE (IF Head(list).inLibrary # NotInLibrary THEN <<Head(list)>> ELSE <<>>)
         \o InLibraryOf(Tail(list))

\* C8: citations and references keep the length and the order of the input, tagged
\* CITING and CITED, and backlinks is the in-library references followed by the
\* in-library citations, in their order; missing fields count as empty lists
C8_Shape ==
    cpc = "done" =>
        /\ Len(related.citations) = Len(InCitations)
        /\ Len(related.references) = Len(InReferences)
        /\ \A i \in DOMAIN related.citations :
              /\ related.citations[i]._type = "CITING"
              /\ SameEntry(related.citations[i], InCitations[i])
        /\ \A i \in DOMAIN related.references :
              /\ related.references[i]._type = "CITED"
              /\ SameEntry(related.references[i], InReferences[i])
        /\ related.backlinks =
              InLibraryOf(related.references) \o InLibraryOf(related.citations)
        /\ ~semantic.citations.defined => related.citations = <<>>
        /\ ~semantic.references.defined => related.references = <<>>
        /\ ~datastore.items.defined => related.backlinks = <<>>

\* a call returned one citation and one reference, both in the library and matched
\* to different items: the backlinks are the reference, then the citation
C8_Witness ==
    /\ cpc = "done"
    /\ Len(related.citations) = 1
    /\ Len(related.references) = 1
    /\ Len(related.backlinks) = 2
    /\ related.backlinks[1]._type = "CITED"
    /\ related.backlinks[2]._type = "CITING"
    /\ related.backlinks[1].inLibrary.raw # related.backlinks[2].inLibrary.raw

(***************************************************************************)
(* Properties of fetchSemantic (SpecFetch, FairSpecFetch)                  *)
(***************************************************************************)
\* the positions of the entries of the answer to the main request
Positions == UNION {{<<l, i>> : i \in DOMAIN backfill[l]} : l \in Lists}

\* the entry of the answer at a position, its lookup, and its augmented value
EntryAt(pos) == EntriesOf(data)[pos[1]][pos[2]]

LookupAt(pos) == backfill[pos[1]][pos[2]]

AugmentedAt(pos) == augmented[pos[1]][pos[2]]

\* C4: the main request and every lookup are attempted at most 4 times, and a request
\* that has failed for good or was answered is never attempted again
C4_AtMostFourAttempts ==
    /\ mainAttempts <= 4
    /\ \A pos \in Positions : LookupAt(pos).attempts <= 4

C4_FailureIsFinal ==
    /\ fpc \in {"augment", "resolved", "rejected"} =>
          /\ mainAttempts' = mainAttempts
          /\ fpc' # "main" /\ fpc' # "idle"
    /\ \A pos \in Positions :
          LookupAt(pos).settled =>
              /\ pos[2] \in DOMAIN backfill'[pos[1]]
              /\ backfill'[pos[1]][pos[2]] = LookupAt(pos)

C4_FixedRetryCount == []C4_AtMostFourAttempts /\ [][C4_FailureIsFinal]_vars

\* the main request was answered at its fourth attempt and a lookup failed for good
\* after its fourth attempt
C4_Witness ==
    /\ fpc = "resolved"
    /\ mainAttempts = 4
    /\ \E pos \in Positions :
          /\ LookupAt(pos).attempts = 4
          /\ LookupAt(pos).settled
          /\ LookupAt(pos).fetched = NullResult

\* the lookups in flight
LookupsInFlight == {pos \in Positions : LookupAt(pos).calls > 0 /\ ~LookupAt(pos).settled}

\* C5: at most one lookup is issued per entry, so the lookups in flight never outnumber
\* the citations plus the references; a lookup is issued only for an entry without
\* externalIds.DOI and with a paperId; and a step of one lookup changes nothing of
\* the lookup or the result of another entry
C5_OnePerEntry ==
    /\ \A pos \in Positions : LookupAt(pos).calls <= 1
    /\ Cardinality(LookupsInFlight)
          <= Len(EntriesOf(data)["citations"]) + Len(EntriesOf(data)["references"])
    /\ \A pos \in Positions :
          LookupAt(pos).calls > 0 =>
              /\ \/ "DOI" \notin DOMAIN EntryAt(pos).externalIds
                 \/ EntryAt(pos).externalIds["DOI"] \in {Null, <<>>}
              /\ EntryAt(pos).paperId \notin {Null, <<>>}

C5_Independent ==
    fpc = "augment" =>
        \A pos, other \in Positions :
            (pos # other /\ (backfill'[pos[1]][pos[2]] # LookupAt(pos)
                             \/ augmented'[pos[1]][pos[2]] # AugmentedAt(pos)))
            => /\ backfill'[other[1]][other[2]] = LookupAt(other)
               /\ augmented'[other[1]][other[2]] = AugmentedAt(other)

C5_BoundedFanOut == []C5_OnePerEntry /\ [][C5_Independent]_vars

\* two lookups are in flight at once, the second one already at a later attempt
C5_Witness ==
    /\ fpc = "augment"
    /\ Cardinality(LookupsInFlight) = 2
    /\ \E pos, other \in LookupsInFlight :
          LookupAt(pos).attempts = 1 /\ LookupAt(other).attempts = 3

\* the fetched ids merged over the ids of an entry
MergedOver(own, fetched) ==
    [k \in (DOMAIN own \ {"<undefined>"}) \cup DOMAIN fetched |->
        IF k \in DOMAIN fetched THEN fetched[k] ELSE own[k]]

\* C6: once the callbacks have returned, in whatever order, each list of augmentDOIs
\* has the length and the order of its input; an entry differs from its input only if
\* its lookup was answered with a DOI, and then only by its externalIds, the fetched
\* ids merged over its own; every other entry is returned unchanged
C6_AugmentPreserves ==
    fpc \in {"augment", "resolved"} =>
        /\ \A l \in Lists : Len(augmented[l]) = Len(EntriesOf(data)[l])
        /\ \A pos \in Positions :
              LookupAt(pos).settled =>
                  LET p == EntryAt(pos)
                      a == AugmentedAt(pos)
                      f == LookupAt(pos).fetched
                  IN  IF /\ LookupAt(pos).calls = 1
                         /\ f \notin {NullResult, NotFetched}
                         /\ "DOI" \in DOMAIN f.externalIds
                         /\ f.externalIds["DOI"] \notin {Null, <<>>}
                      THEN /\ a.paperId = p.paperId /\ a.doi = p.doi /\ a.title = p.title
                           /\ a.externalIds = MergedOver(p.externalIds, f.externalIds)
                      ELSE a = p

\* of two lookups of one list, the first failed and the second was answered with a DOI:
\* the first entry is unchanged and the second has the merged ids
C6_Witness ==
    /\ fpc = "augment"
    /\ AllSettled
    /\ Len(augmented["citations"]) = 2
    /\ backfill["citations"][1].fetched = NullResult
    /\ augmented["citations"][1] = EntriesOf(data)["citations"][1]
    /\ backfill["citations"][2].fetched \notin {NullResult, NotFetched}
    /\ augmented["citations"][2] # EntriesOf(data)["citations"][2]

\* C7: a rejection comes with no lookup issued, one reported error and that same error
\* as the reason; once the main request is answered fetchSemantic never rejects,
\* whatever the lookups do, and it resolves once every lookup has completed or failed,
\* with the requested doi in its result
C7_Safe ==
    /\ fpc = "rejected" =>
          /\ Positions = {}
          /\ data = NoData
          /\ Len(errors) = 1
          /\ outcome = [kind |-> "rejected", error |-> errors[1].error]
    /\ fpc \in {"augment", "resolved"} => errors = <<>> /\ outcome.kind # "rejected"
    /\ fpc \in {"idle", "main"} => Positions = {} /\ errors = <<>> /\ outcome.kind = "pending"
    /\ fpc = "resolved" =>
          /\ AllSettled
          /\ outcome.kind = "resolved"
          /\ outcome.value.doi = doi
          /\ Len(outcome.value.citations) = Len(EntriesOf(data)["citations"])
          /\ Len(outcome.value.references) = Len(EntriesOf(data)["references"])

C7_NoRejectionAfterAnswer == fpc \in {"augment", "resolved"} => fpc' # "rejected"

=============================================================================
